---- MODULE Spec2Model ----
(***************************************************************************)
(* A model of envirofacts_api/Get_GHGRP_data.py: the GHGRP_API class       *)
(* (read_path, get_table_slice, get_row_count, get_reporting_year_query,   *)
(* get_data) and the batch driver of the __main__ block.  The remote       *)
(* Envirofacts service and the file system are the environment: every      *)
(* response and every write outcome is chosen nondeterministically.        *)
(***************************************************************************)
EXTENDS Integers, Sequences, FiniteSets, TLC

(***************************************************************************)
(* Bounds of the model.                                                    *)
(***************************************************************************)
\* the largest number of 10,000-row chunks a modelled table spans
MaxChunks == 3
\* how many entries of the driver's year list are modelled
NumYears == 1

(***************************************************************************)
(* Program constants.                                                      *)
(***************************************************************************)
\* step of np.arange in get_data
ChunkSize == 10000
\* time.sleep(5) after a successful write, in milliseconds
PauseOk == 5000
\* time.sleep(0.2) after a failure, in milliseconds
PauseFail == 200
\* the status code read_path accepts
HTTP_OK == 200

BASE_URL == "https://enviro.epa.gov/enviro/efservice/"

(***************************************************************************)
(* Text.  Column names are sequences of one-character strings, so that     *)
(* str.lower() and int() are computed character by character.              *)
(***************************************************************************)
UpperChars == <<"A","B","C","D","E","F","G","H","I","J","K","L","M",
                "N","O","P","Q","R","S","T","U","V","W","X","Y","Z">>
LowerChars == <<"a","b","c","d","e","f","g","h","i","j","k","l","m",
                "n","o","p","q","r","s","t","u","v","w","x","y","z">>
DigitChars == <<"0","1","2","3","4","5","6","7","8","9">>

LowerChar(c) ==
    IF \E k \in 1..26 : UpperChars[k] = c
    THEN LowerChars[CHOOSE k \in 1..26 : UpperChars[k] = c]
    ELSE c

\* str.lower()
Lower(s) == [k \in 1..Len(s) |-> LowerChar(s[k])]

IsDigit(c) == \E k \in 1..10 : DigitChars[k] = c
DigitVal(c) == (CHOOSE k \in 1..10 : DigitChars[k] = c) - 1

RECURSIVE DigitsVal(_)
DigitsVal(s) ==
    IF s = <<>> THEN 0
    ELSE 10 * DigitsVal(SubSeq(s, 1, Len(s) - 1)) + DigitVal(s[Len(s)])

\* whether int(text) succeeds: an optional sign, then one or more digits
IsIntText(s) ==
    LET body == IF s # <<>> /\ s[1] \in {"-", "+"} THEN Tail(s) ELSE s
    IN  body # <<>> /\ \A k \in 1..Len(body) : IsDigit(body[k])

\* int(text) where it succeeds
IntOfText(s) ==
    IF s[1] = "-" THEN 0 - DigitsVal(Tail(s))
    ELSE IF s[1] = "+" THEN DigitsVal(Tail(s))
    ELSE DigitsVal(s)

\* the header text a CSV body consisting of the number n alone is read as
RECURSIVE NatText(_)
NatText(n) ==
    IF n < 10 THEN <<DigitChars[n + 1]>>
    ELSE Append(NatText(n \div 10), DigitChars[(n % 10) + 1])
IntText(n) == IF n < 0 THEN <<"-">> \o NatText(0 - n) ELSE NatText(n)

C_TOTALQUERYRESULTS ==
    <<"T","O","T","A","L","Q","U","E","R","Y","R","E","S","U","L","T","S">>
C_reporting_year ==
    <<"r","e","p","o","r","t","i","n","g","_","y","e","a","r">>
C_year == <<"y","e","a","r">>

(***************************************************************************)
(* Values.  Optional[int] is a sequence of length at most one; a           *)
(* DataFrame is its column names and its rows, every cell the text of the  *)
(* CSV field; a call returns a value or raises.                            *)
(***************************************************************************)
NoneInt == <<>>
SomeInt(v) == <<v>>
\* the truth value Python gives an Optional[int]: None and 0 are false
Truthy(opt) == opt # NoneInt /\ opt[1] # 0

DataFrame(cols, data) == [kind |-> "DataFrame", columns |-> cols, data |-> data]
NoneValue == [kind |-> "None"]
Returned(v) == [ok |-> TRUE, val |-> v]
Raised(e) == [ok |-> FALSE, exc |-> e]
\* a local variable that is not bound yet
Unbound == [kind |-> "unbound"]
UnboundStr == "<unbound>"

E_URL == "AssertionError: URL does not exist."
E_READ_CSV == "EmptyDataError: No columns to parse from file"
E_COUNT == "ValueError: Count file format not recognized."
E_YEAR == "ValueError: Column name for reporting year not recognized."
E_INT == "ValueError: invalid literal for int()"
E_INDEX == "IndexError: index 0 is out of bounds for axis 0 with size 0"
E_NONE == "AttributeError: 'NoneType' object has no attribute 'to_csv'"
E_WRITE == "OSError: cannot write the output file"

\* the set of the elements of a sequence
Range(s) == {s[k] : k \in 1..Len(s)}

\* DataFrame.empty: some axis has length zero
Empty(df) == Len(df.columns) = 0 \/ Len(df.data) = 0

\* the position of a column
ColumnIndex(df, name) == CHOOSE k \in 1..Len(df.columns) : df.columns[k] = name

(***************************************************************************)
(* read_path.  A response of the service is the status of the              *)
(* requests.get probe and what pd.read_csv makes of the second fetch.      *)
(***************************************************************************)
Unparseable == [kind |-> "Unparseable"]

ReadPath(resp) ==
    IF resp.status # HTTP_OK THEN Raised(E_URL)
    ELSE IF resp.csv.kind # "DataFrame" THEN Raised(E_READ_CSV)
    ELSE Returned(resp.csv)

(***************************************************************************)
(* The URLs of get_table_slice, get_row_count and                          *)
(* get_reporting_year_query.                                               *)
(***************************************************************************)
\* the slice URL with the qualifier left out
SlicePath_NoQuery(table, start_row, end_row, custom_query) ==
    BASE_URL \o "/" \o table \o "/rows/"
        \o ToString(start_row) \o ":" \o ToString(end_row) \o "/csv"

SlicePath(table, start_row, end_row, custom_query) ==
    BASE_URL \o "/" \o table \o "/" \o custom_query \o "/rows/"
        \o ToString(start_row) \o ":" \o ToString(end_row) \o "/csv"

CountPath(table, custom_query) ==
    BASE_URL \o "/" \o table \o "/" \o custom_query \o "/count/csv"

ProbePath(table) == BASE_URL \o "/" \o table \o "/rows/0:1/csv"

(***************************************************************************)
(* get_row_count, from the frame read_path returned.                       *)
(***************************************************************************)
PyInt(text) ==
    IF IsIntText(text) THEN Returned(IntOfText(text)) ELSE Raised(E_INT)

\* get_row_count looking for the column under another name
RowCountOf_OtherName(df) ==
    IF <<"c","o","u","n","t"," ","o","f"," ","t","o","t","a","l"," ",
         "r","e","s","u","l","t","s">> \in Range(df.columns)
    THEN IF Len(df.data) = 0 THEN Raised(E_INDEX)
         ELSE PyInt(df.data[1][CHOOSE k \in 1..Len(df.columns) :
                 df.columns[k] = <<"c","o","u","n","t"," ","o","f"," ","t","o","t","a","l"," ",
                                   "r","e","s","u","l","t","s">>])
    ELSE IF Empty(df) THEN PyInt(df.columns[1])
    ELSE Raised(E_COUNT)

RowCountOf(df) ==
    IF C_TOTALQUERYRESULTS \in Range(df.columns)
    THEN IF Len(df.data) = 0 THEN Raised(E_INDEX)
         ELSE PyInt(df.data[1][ColumnIndex(df, C_TOTALQUERYRESULTS)])
    ELSE IF Empty(df) THEN PyInt(df.columns[1])
    ELSE Raised(E_COUNT)

(***************************************************************************)
(* get_reporting_year_query, from the probed frame.                        *)
(***************************************************************************)
\* get_reporting_year_query without .str.lower()
YearQueryOf_CaseSensitive(df, year) ==
    IF C_reporting_year \in Range(df.columns)
    THEN Returned("reporting_year/" \o ToString(year))
    ELSE IF C_year \in Range(df.columns)
    THEN Returned("year/" \o ToString(year))
    ELSE Raised(E_YEAR)

YearQueryOf(df, year) ==
    LET lowered == {Lower(c) : c \in Range(df.columns)}
    IN  IF C_reporting_year \in lowered
        THEN Returned("reporting_year/" \o ToString(year))
        ELSE IF C_year \in lowered
        THEN Returned("year/" \o ToString(year))
        ELSE Raised(E_YEAR)

(***************************************************************************)
(* The chunk boundaries of get_data.                                       *)
(***************************************************************************)
\* Arange with the stop included, as range-like helpers of other libraries do
RECURSIVE Arange_IncludesStop(_, _, _)
Arange_IncludesStop(start, stop, step) ==
    IF start > stop THEN <<>>
    ELSE <<start>> \o Arange_IncludesStop(start + step, stop, step)

\* np.arange(start, stop, step) for step > 0
RECURSIVE Arange(_, _, _)
Arange(start, stop, step) ==
    IF start >= stop THEN <<>>
    ELSE <<start>> \o Arange(start + step, stop, step)

\* np.append(np.arange(start=0, stop=max_row, step=10000), max_row)
RowRange(max_row) == Append(Arange(0, max_row, ChunkSize), max_row)

(***************************************************************************)
(* pd.concat and DataFrame.drop_duplicates of get_data.                    *)
(***************************************************************************)
RECURSIVE ConcatData(_)
ConcatData(frames) ==
    IF frames = <<>> THEN <<>>
    ELSE frames[1].data \o ConcatData(Tail(frames))

\* slices of one table share their columns
Concat(frames) == DataFrame(frames[1].columns, ConcatData(frames))

\* drop_duplicates(keep='last'): a row is a duplicate when an equal row follows
DropDuplicateRows_KeepLast(data) ==
    LET kept == {k \in 1..Len(data) : \A j \in (k + 1)..Len(data) : data[j] # data[k]}
        nth(i) == CHOOSE k \in kept : Cardinality({j \in kept : j <= k}) = i
    IN  [i \in 1..Cardinality(kept) |-> data[nth(i)]]

\* keep='first': a row is a duplicate when an equal row precedes it; the
\* rows that are not stay, in their order
DropDuplicateRows(data) ==
    LET kept == {k \in 1..Len(data) : \A j \in 1..(k - 1) : data[j] # data[k]}
        nth(i) == CHOOSE k \in kept : Cardinality({j \in kept : j <= k}) = i
    IN  [i \in 1..Cardinality(kept) |-> data[nth(i)]]

DropDuplicates(df) == DataFrame(df.columns, DropDuplicateRows(df.data))

(***************************************************************************)
(* Inputs: the tables and years of the driver, the arguments of a direct   *)
(* call of get_data, and the responses of the service.                     *)
(***************************************************************************)
\* lines of tables.txt
tables == <<"V_GHG_EMITTER_FACILITIES", "pub_dim_facility">>
\* the year list of the __main__ block
SourceYears == <<2023, 2022, 2021, 2020>>
years == SubSeq(SourceYears, 1, NumYears)
base_dir == "/your/output/directory/goes/here"

\* the row totals modelled: every number of chunks up to MaxChunks, with a
\* last chunk of 1, 2,000, 5,000 and 10,000 rows
LastChunkSizes == {1, 2000, 5000, ChunkSize}
Totals ==
    {0} \cup {(k - 1) * ChunkSize + o : k \in 1..MaxChunks, o \in LastChunkSizes}

\* the reporting_year and rows arguments of a direct call
YearArgs == {NoneInt} \cup {SomeInt(years[k]) : k \in 1..Len(years)}
RowsArgs == {NoneInt, SomeInt(-1)} \cup {SomeInt(v) : v \in Totals}

C_Reporting_Year ==
    <<"R","e","p","o","r","t","i","n","g","_","Y","e","a","r">>
C_REPORTING_YEAR ==
    <<"R","E","P","O","R","T","I","N","G","_","Y","E","A","R">>
C_YEAR == <<"Y","E","A","R">>
C_YEARS == <<"Y","E","A","R","S">>
C_FACILITY_ID == <<"F","A","C","I","L","I","T","Y","_","I","D">>
C_count_of_total_results ==
    <<"c","o","u","n","t"," ","o","f"," ","t","o","t","a","l"," ",
      "r","e","s","u","l","t","s">>
C_totalqueryresults ==
    <<"t","o","t","a","l","q","u","e","r","y","r","e","s","u","l","t","s">>
C_abc == <<"a","b","c">>

\* the schemas a 0:1 probe may show
ProbeColumns ==
    { <<C_FACILITY_ID, C_Reporting_Year>>, <<C_REPORTING_YEAR>>,
      <<C_reporting_year, C_FACILITY_ID>>,
      <<C_REPORTING_YEAR, C_YEAR>>, <<C_YEAR, C_reporting_year>>,
      <<C_FACILITY_ID, C_YEAR>>, <<C_year>>,
      <<C_FACILITY_ID>>, <<C_YEARS>>, <<C_FACILITY_ID, C_YEARS>> }

ProbeFrames ==
    {DataFrame(cols, <<[k \in 1..Len(cols) |-> <<"1">>]>>) : cols \in ProbeColumns}
        \cup {DataFrame(<<C_FACILITY_ID, C_YEAR>>, <<>>)}

\* the shapes a count response may have
CountFrames ==
    {DataFrame(<<C_TOTALQUERYRESULTS>>, <<<<IntText(v)>>>>) : v \in Totals \cup {-1}}
        \cup {DataFrame(<<IntText(v)>>, <<>>) : v \in {0, 2000, -1}}
        \cup { DataFrame(<<C_count_of_total_results>>, <<<<IntText(42)>>>>),
               DataFrame(<<C_totalqueryresults>>, <<<<IntText(42)>>>>),
               DataFrame(<<C_FACILITY_ID>>, <<<<IntText(7)>>, <<IntText(8)>>>>),
               DataFrame(<<C_abc>>, <<>>),
               DataFrame(<<IntText(5000), C_abc>>, <<>>),
               DataFrame(<<C_TOTALQUERYRESULTS>>, <<>>),
               DataFrame(<<C_TOTALQUERYRESULTS>>, <<<<C_abc>>>>),
               DataFrame(<<C_TOTALQUERYRESULTS>>, <<<<<<>>>>>>),
               DataFrame(<<C_FACILITY_ID, C_TOTALQUERYRESULTS>>,
                         <<<<IntText(7), IntText(12000)>>,
                           <<IntText(8), IntText(1)>>>>) }

\* rows of a table: R1 and R3 differ in one column only
R1 == << <<"1">>, <<"x">> >>
R2 == << <<"2">>, <<"x">> >>
R3 == << <<"1">>, <<"y">> >>
SliceColumns == <<C_FACILITY_ID, C_YEAR>>
SliceFrames ==
    {DataFrame(SliceColumns, data) : data \in {<<>>, <<R1, R2>>, <<R2, R3, R3>>}}
\* the slices served to the driver, which only tells a table from no table
MainSliceFrames ==
    {DataFrame(SliceColumns, data) : data \in {<<>>, <<R1, R2>>}}

Responses(frames) ==
    {[status |-> 404, csv |-> Unparseable]}
        \cup {[status |-> HTTP_OK, csv |-> f] : f \in frames \cup {Unparseable}}

(***************************************************************************)
(* State.                                                                  *)
(***************************************************************************)
VARIABLES
    pc,                   \* the statement about to run
    caller,               \* "api": a direct call of get_data; "main": the driver
    table,                \* get_data's arguments
    reporting_year,
    rows,
    reporting_year_query, \* get_data's locals
    max_row,
    row_range,
    n,
    ghgrp_data,
    df,                   \* the frame the last helper read (its local df)
    exc,                  \* the exception raised, "" when none
    result,               \* what a direct call of get_data returned
    fetches,              \* the read_path calls of the current get_data call
    t_idx,                \* the driver: position in tables and years
    y_idx,
    df_returned,
    yielded,              \* how get_data ended for the pair handled last
    files,                \* the output files that exist
    stdout,               \* the lines printed by the driver's loop
    slept                 \* the pauses taken, in milliseconds

gd_locals == <<reporting_year_query, max_row, row_range, n, ghgrp_data, df>>
gd_args == <<table, reporting_year, rows>>
main_vars == <<t_idx, y_idx, df_returned, yielded, files, stdout, slept>>
vars == <<pc, caller, gd_args, gd_locals, exc, result, fetches, main_vars>>

\* os.path.join(base_dir, f"{table}_{year}.csv")
pth_out(tb, year) == base_dir \o "/" \o tb \o "_" \o ToString(year) \o ".csv"

AllOutputPaths ==
    {pth_out(tables[a], years[b]) : a \in 1..Len(tables), b \in 1..Len(years)}

FreshLocals ==
    /\ reporting_year_query = UnboundStr
    /\ max_row = NoneInt
    /\ row_range = <<>>
    /\ n = 0
    /\ ghgrp_data = <<>>
    /\ df = Unbound
    /\ exc = ""
    /\ result = Unbound
    /\ fetches = <<>>

InitApi ==
    /\ caller = "api"
    /\ pc = "gd_year"
    /\ table \in Range(tables)
    /\ reporting_year \in YearArgs
    /\ rows \in RowsArgs
    /\ FreshLocals
    /\ t_idx = 1 /\ y_idx = 1
    /\ df_returned = Unbound
    /\ yielded = ""
    /\ files = {}
    /\ stdout = <<>>
    /\ slept = <<>>

InitMain ==
    /\ caller = "main"
    /\ pc = "m_for"
    /\ table = tables[1]
    /\ reporting_year = NoneInt
    /\ rows = NoneInt
    /\ FreshLocals
    /\ t_idx = 1 /\ y_idx = 1
    /\ df_returned = Unbound
    /\ yielded = ""
    /\ files \in SUBSET AllOutputPaths
    /\ stdout = <<>>
    /\ slept = <<>>

Init == InitApi \/ InitMain

\* get_data's frame is gone once the driver has its value: nothing of it
\* is read again
DropFrame ==
    /\ reporting_year_query' = UnboundStr
    /\ max_row' = NoneInt
    /\ row_range' = <<>>
    /\ n' = 0
    /\ ghgrp_data' = <<>>
    /\ df' = Unbound
    /\ result' = Unbound
    /\ fetches' = <<>>
    /\ df_returned' = Unbound

(***************************************************************************)
(* How a call of get_data ends: its value or its exception reaches the     *)
(* caller, the driver's try block or the direct caller.                    *)
(***************************************************************************)
Raise(e) ==
    /\ exc' = e
    /\ yielded' = "raised"
    /\ pc' = IF caller = "main" THEN "m_except" ELSE "raised"
    /\ UNCHANGED <<result, df_returned>>

Return(v) ==
    /\ exc' = exc
    /\ yielded' = v.kind
    /\ IF caller = "main"
       THEN pc' = "m_write" /\ df_returned' = v /\ result' = result
       ELSE pc' = "returned" /\ result' = v /\ df_returned' = df_returned

\* one read_path call, as the log keeps it: the URL, the request it stands
\* for, whether it succeeded, and the rows a slice brought
Fetch(fn, path, start_row, end_row, custom_query, got) ==
    [fn |-> fn, path |-> path, start_row |-> start_row, end_row |-> end_row,
     custom_query |-> custom_query, ok |-> got.ok,
     data |-> IF got.ok /\ fn = "slice" THEN got.val.data ELSE <<>>]

(***************************************************************************)
(* get_data, statement by statement.                                       *)
(***************************************************************************)
\* reporting_year_query = self.get_reporting_year_query(...)
GetReportingYearQuery ==
    /\ pc = "gd_year"
    /\ IF reporting_year = NoneInt
       THEN /\ reporting_year_query' = ""
            /\ pc' = "gd_count"
            /\ UNCHANGED <<df, fetches, exc, result, df_returned, yielded>>
       ELSE \E resp \in Responses(ProbeFrames) :
               LET got == ReadPath(resp)
                   q == YearQueryOf(got.val, reporting_year[1])
               IN  /\ fetches' = Append(fetches,
                           Fetch("probe", ProbePath(table), 0, 1, "", got))
                   /\ IF ~got.ok
                      THEN Raise(got.exc) /\ UNCHANGED <<df, reporting_year_query>>
                      ELSE /\ df' = got.val
                           /\ IF q.ok
                              THEN /\ reporting_year_query' = q.val
                                   /\ pc' = "gd_count"
                                   /\ UNCHANGED <<exc, result, df_returned, yielded>>
                              ELSE Raise(q.exc) /\ UNCHANGED reporting_year_query
    /\ UNCHANGED <<caller, gd_args, max_row, row_range, n, ghgrp_data,
                   t_idx, y_idx, files, stdout, slept>>

\* max_row = rows or self.get_row_count(...)
GetRowCount ==
    /\ pc = "gd_count"
    /\ IF Truthy(rows)
       THEN /\ max_row' = SomeInt(rows[1])
            /\ pc' = "gd_arange"
            /\ df' = Unbound
            /\ UNCHANGED <<fetches, exc, result, df_returned, yielded>>
       ELSE \E resp \in Responses(CountFrames) :
               LET got == ReadPath(resp)
                   count == RowCountOf(got.val)
               IN  /\ fetches' = Append(fetches,
                           Fetch("count", CountPath(table, reporting_year_query),
                                 0, 0, reporting_year_query, got))
                   /\ IF ~got.ok
                      THEN Raise(got.exc) /\ df' = Unbound /\ UNCHANGED max_row
                      ELSE /\ df' = got.val
                           /\ IF count.ok
                              THEN /\ max_row' = SomeInt(count.val)
                                   /\ pc' = "gd_arange"
                                   /\ UNCHANGED <<exc, result, df_returned, yielded>>
                              ELSE Raise(count.exc) /\ UNCHANGED max_row
    /\ UNCHANGED <<caller, gd_args, reporting_year_query, row_range, n,
                   ghgrp_data, t_idx, y_idx, files, stdout, slept>>

\* get_data returning an empty table where it returns None
BuildRowRange_EmptyTable ==
    /\ pc = "gd_arange"
    /\ row_range' = RowRange(max_row[1])
    /\ ghgrp_data' = <<>>
    /\ n' = 0
    /\ df' = Unbound
    /\ IF Len(RowRange(max_row[1])) > 1
       THEN pc' = "gd_loop" /\ UNCHANGED <<exc, result, df_returned, yielded>>
       ELSE Return(DataFrame(<<>>, <<>>))
    /\ UNCHANGED <<caller, gd_args, reporting_year_query, max_row, fetches,
                   t_idx, y_idx, files, stdout, slept>>

\* row_range = np.append(np.arange(...), max_row); ghgrp_data = [];
\* if len(row_range) > 1: ... else: return None
BuildRowRange ==
    /\ pc = "gd_arange"
    /\ row_range' = RowRange(max_row[1])
    /\ ghgrp_data' = <<>>
    /\ n' = 0
    /\ df' = Unbound
    /\ IF Len(RowRange(max_row[1])) > 1
       THEN pc' = "gd_loop" /\ UNCHANGED <<exc, result, df_returned, yielded>>
       ELSE Return(NoneValue)
    /\ UNCHANGED <<caller, gd_args, reporting_year_query, max_row, fetches,
                   t_idx, y_idx, files, stdout, slept>>

\* the loop of get_data going on to the next chunk when a slice fetch fails
GetTableSlice_SkipFailed ==
    /\ pc = "gd_loop"
    /\ \E resp \in Responses(IF caller = "main" THEN MainSliceFrames ELSE SliceFrames) :
          LET got == ReadPath(resp)
              start_row == row_range[n + 1]
              end_row == row_range[n + 2]
          IN  /\ fetches' = Append(fetches,
                      Fetch("slice",
                            SlicePath(table, start_row, end_row, reporting_year_query),
                            start_row, end_row, reporting_year_query, got))
              /\ ghgrp_data' = IF got.ok THEN Append(ghgrp_data, got.val)
                               ELSE Append(ghgrp_data, DataFrame(SliceColumns, <<>>))
              /\ n' = n + 1
              /\ pc' = IF n + 1 < Len(row_range) - 1 THEN "gd_loop" ELSE "gd_concat"
              /\ UNCHANGED <<exc, result, df_returned, yielded>>
    /\ UNCHANGED <<caller, gd_args, reporting_year_query, max_row, row_range,
                   df, t_idx, y_idx, files, stdout, slept>>

\* one turn of: for n in range(len(row_range) - 1):
\*     ghgrp_data.append(self.get_table_slice(...))
GetTableSlice ==
    /\ pc = "gd_loop"
    /\ \E resp \in Responses(IF caller = "main" THEN MainSliceFrames ELSE SliceFrames) :
          LET got == ReadPath(resp)
              start_row == row_range[n + 1]
              end_row == row_range[n + 2]
          IN  /\ fetches' = Append(fetches,
                      Fetch("slice",
                            SlicePath(table, start_row, end_row, reporting_year_query),
                            start_row, end_row, reporting_year_query, got))
              /\ IF ~got.ok
                 THEN Raise(got.exc) /\ UNCHANGED <<ghgrp_data, n>>
                 ELSE /\ ghgrp_data' = Append(ghgrp_data, got.val)
                      /\ n' = n + 1
                      /\ pc' = IF n + 1 < Len(row_range) - 1
                               THEN "gd_loop" ELSE "gd_concat"
                      /\ UNCHANGED <<exc, result, df_returned, yielded>>
    /\ UNCHANGED <<caller, gd_args, reporting_year_query, max_row, row_range,
                   df, t_idx, y_idx, files, stdout, slept>>

\* ghgrp_data = pd.concat(ghgrp_data); ghgrp_data.drop_duplicates(inplace=True);
\* return ghgrp_data
ConcatDropDuplicates ==
    /\ pc = "gd_concat"
    /\ LET merged == DropDuplicates(Concat(ghgrp_data))
       IN  ghgrp_data' = merged /\ Return(merged)
    /\ UNCHANGED <<caller, gd_args, reporting_year_query, max_row, row_range,
                   n, df, fetches, t_idx, y_idx, files, stdout, slept>>

(***************************************************************************)
(* The driver: for table in tables: for year in years: ...                 *)
(***************************************************************************)
WroteLine(tb, year) == "Wrote file: " \o pth_out(tb, year)
ProblemLine(tb, year) ==
    "Problem with table: " \o tb \o " (" \o ToString(year) \o ")"
ExistsLine(tb, year) == "Exists: " \o pth_out(tb, year)

\* the next turn of the two loops, or their end; what the turn that ends
\* left bound is dead
NextTurn ==
    /\ y_idx' = IF y_idx < Len(years) THEN y_idx + 1 ELSE 1
    /\ t_idx' = IF y_idx < Len(years) THEN t_idx ELSE t_idx + 1
    /\ pc' = IF y_idx = Len(years) /\ t_idx = Len(tables) THEN "m_done" ELSE "m_for"
    /\ DropFrame
    /\ exc' = ""

\* if not os.path.exists(pth_out): try: df_returned = api.get_data(...)
\* else: print(f"Exists: {pth_out}")
MainFor ==
    /\ pc = "m_for"
    /\ LET tb == tables[t_idx]
           year == years[y_idx]
       IN  IF pth_out(tb, year) \notin files
           THEN /\ pc' = "gd_year"
                /\ table' = tb
                /\ reporting_year' = SomeInt(year)
                /\ rows' = NoneInt
                /\ yielded' = ""
                /\ UNCHANGED <<gd_locals, exc, result, fetches, df_returned,
                               t_idx, y_idx, stdout, slept>>
           ELSE /\ stdout' = Append(stdout, ExistsLine(tb, year))
                /\ yielded' = ""
                /\ NextTurn
                /\ UNCHANGED <<gd_args, slept>>
    /\ UNCHANGED <<caller, files>>

\* the driver writing an empty file where get_data returned None
MainWrite_NoneAsEmpty ==
    /\ pc = "m_write"
    /\ LET tb == tables[t_idx]
           year == years[y_idx]
       IN  \/ /\ files' = files \cup {pth_out(tb, year)}
              /\ stdout' = Append(stdout, WroteLine(tb, year))
              /\ slept' = Append(slept, PauseOk)
              /\ NextTurn
           \/ /\ exc' = E_WRITE
              /\ pc' = "m_except"
              /\ DropFrame
              /\ UNCHANGED <<files, stdout, slept, t_idx, y_idx>>
    /\ UNCHANGED <<caller, gd_args, yielded>>

\* df_returned.to_csv(pth_out); print(f"Wrote file: {pth_out}"); time.sleep(5)
\* The write succeeds or fails as the file system decides; a failed write
\* leaves no file.
MainWrite ==
    /\ pc = "m_write"
    /\ LET tb == tables[t_idx]
           year == years[y_idx]
       IN  IF df_returned.kind = "None"
           THEN /\ exc' = E_NONE
                /\ pc' = "m_except"
                /\ DropFrame
                /\ UNCHANGED <<files, stdout, slept, t_idx, y_idx>>
           ELSE \/ /\ files' = files \cup {pth_out(tb, year)}
                   /\ stdout' = Append(stdout, WroteLine(tb, year))
                   /\ slept' = Append(slept, PauseOk)
                   /\ NextTurn
                \/ /\ exc' = E_WRITE
                   /\ pc' = "m_except"
                   /\ DropFrame
                   /\ UNCHANGED <<files, stdout, slept, t_idx, y_idx>>
    /\ UNCHANGED <<caller, gd_args, yielded>>

\* a handler that lets the exception go on: the batch ends with it
MainExcept_Reraise ==
    /\ pc = "m_except"
    /\ pc' = "m_crashed"
    /\ UNCHANGED <<caller, gd_args, gd_locals, exc, result, fetches, main_vars>>

\* except: print(f"Problem with table: {table} ({year})"); time.sleep(0.2)
MainExcept ==
    /\ pc = "m_except"
    /\ stdout' = Append(stdout, ProblemLine(tables[t_idx], years[y_idx]))
    /\ slept' = Append(slept, PauseFail)
    /\ NextTurn
    /\ UNCHANGED <<caller, gd_args, yielded, files>>

Next ==
    \/ GetReportingYearQuery
    \/ GetRowCount
    \/ BuildRowRange
    \/ GetTableSlice
    \/ ConcatDropDuplicates
    \/ MainFor
    \/ MainWrite
    \/ MainExcept

Spec == Init /\ [][Next]_vars

\* The driver alone.  It is one sequential process and every call it makes
\* returns or raises, so a step that can be taken is taken.
MainSpec == InitMain /\ [][Next]_vars /\ WF_vars(Next)

(***************************************************************************)
(* What the properties below speak of.                                     *)
(***************************************************************************)
Last(s) == s[Len(s)]

\* get_data has returned to its caller, and what it returned
Completed == pc \in {"returned", "m_write"}
ReturnedValue == IF caller = "main" THEN df_returned ELSE result
\* an exception has left get_data
Propagated == pc \in {"raised", "m_except"}

SliceFetches == SelectSeq(fetches, LAMBDA f : f.fn = "slice")

\* the rows the slices brought, in the order they arrived
RECURSIVE ArrivedRows(_)
ArrivedRows(log) ==
    IF log = <<>> THEN <<>>
    ELSE ArrivedRows(SubSeq(log, 1, Len(log) - 1)) \o Last(log).data

FirstIndex(s, x) == CHOOSE k \in 1..Len(s) : s[k] = x /\ \A j \in 1..(k - 1) : s[j] # x

Occurrences(s, x) == Cardinality({k \in 1..Len(s) : s[k] = x})

\* the pair the driver handles in its k-th turn
TableOfTurn(k) == tables[((k - 1) \div Len(years)) + 1]
YearOfTurn(k) == years[((k - 1) % Len(years)) + 1]
TurnsDone == (t_idx - 1) * Len(years) + (y_idx - 1)

(***************************************************************************)
(* C1.  For every total row count >= 0 the chunk boundaries start at 0,    *)
(* end at the total, every step before the last is exactly 10,000 and the  *)
(* last is at most 10,000 (25,000 gives [0, 10000, 20000, 25000] and three *)
(* slice fetches); every slice request issued has                          *)
(* 0 < end_row - start_row <= 10,000.                                      *)
(***************************************************************************)
C1_ChunkBoundaries ==
    (row_range # <<>> /\ max_row[1] >= 0) =>
        LET total == max_row[1]
            L == Len(row_range)
        IN  /\ row_range[1] = 0
            /\ row_range[L] = total
            /\ \A k \in 1..(L - 2) : row_range[k + 1] - row_range[k] = 10000
            /\ L >= 2 => row_range[L] - row_range[L - 1] <= 10000
            /\ total = 25000 => row_range = <<0, 10000, 20000, 25000>>
            /\ \A k \in 1..Len(SliceFetches) :
                  /\ SliceFetches[k].start_row = row_range[k]
                  /\ SliceFetches[k].end_row = row_range[k + 1]
                  /\ 0 < SliceFetches[k].end_row - SliceFetches[k].start_row
                  /\ SliceFetches[k].end_row - SliceFetches[k].start_row <= 10000
            /\ Completed => Len(SliceFetches) = L - 1
            /\ (Completed /\ total = 25000) => Len(SliceFetches) = 3

C1_Witness ==
    /\ pc = "returned"
    /\ max_row = SomeInt(25000)
    /\ row_range = <<0, 10000, 20000, 25000>>
    /\ Len(SliceFetches) = 3

(***************************************************************************)
(* C2.  The total row count used for partitioning is the caller-supplied   *)
(* row limit whenever the caller supplies a non-negative one, and then the *)
(* Row Counter is not called; otherwise it is the result of get_row_count  *)
(* called with the resolved year qualifier.                                *)
(***************************************************************************)
C2_RowLimitUsed ==
    pc = "gd_arange" =>
        IF rows # NoneInt
        THEN rows[1] >= 0 =>
                /\ max_row = rows
                /\ \A k \in 1..Len(fetches) : fetches[k].fn # "count"
        ELSE /\ fetches # <<>>
             /\ Last(fetches).fn = "count"
             /\ Last(fetches).custom_query = reporting_year_query
             /\ max_row = SomeInt(RowCountOf(df).val)

(***************************************************************************)
(* C3.  When the computed total row count is zero, get_data issues no      *)
(* slice fetch and yields None, not an empty table; for every total > 0 on *)
(* which no fetch fails it yields a table, never None.                     *)
(***************************************************************************)
C3_NoDataSentinel ==
    /\ (max_row # NoneInt /\ max_row[1] = 0) =>
          /\ SliceFetches = <<>>
          /\ pc \notin {"gd_loop", "gd_concat"}
          /\ Completed => ReturnedValue.kind = "None"
    /\ (Completed /\ max_row[1] > 0) => ReturnedValue.kind = "DataFrame"

C3_Witness ==
    /\ pc = "returned"
    /\ max_row = SomeInt(0)
    /\ rows = NoneInt
    /\ result = NoneValue
    /\ Len(fetches) = 1

(***************************************************************************)
(* C4.  If the year probe, the count fetch or a slice fetch fails, the     *)
(* operation aborts there: the error reaches the caller of get_data, no    *)
(* request follows the failing one, the failed request is not retried, and *)
(* no table built from the slices already fetched is returned.             *)
(***************************************************************************)
C4_AbortOnFailure ==
    /\ \A k \in 1..Len(fetches) : ~fetches[k].ok => k = Len(fetches)
    /\ (fetches # <<>> /\ ~Last(fetches).ok) =>
          /\ Propagated
          /\ exc \in {E_URL, E_READ_CSV}
          /\ result = Unbound
          /\ df_returned = Unbound
    /\ (exc # "" /\ fetches # <<>>) =>
          /\ Propagated
          /\ result = Unbound
          /\ df_returned = Unbound

C4_Witness ==
    /\ pc = "raised"
    /\ Len(fetches) = 4
    /\ ~Last(fetches).ok
    /\ Last(fetches).fn = "slice"
    /\ Len(ghgrp_data) = 1
    /\ result = Unbound

(***************************************************************************)
(* C5.  get_row_count, as stated: a response with a column named           *)
(* "count of total results" holding n returns n; a row-less response whose *)
(* sole column header is an integer returns that integer; every other      *)
(* response raises the unrecognized-count-format error; every value        *)
(* returned is non-negative.                                               *)
(***************************************************************************)
\* get_row_count has read a frame and has returned or raised
AfterCount ==
    /\ fetches # <<>>
    /\ Last(fetches).fn = "count"
    /\ Last(fetches).ok
    /\ df.kind = "DataFrame"
    /\ pc \in {"gd_arange", "raised", "m_except"}

CountReturned(v) == pc = "gd_arange" /\ max_row = SomeInt(v)
CountRaised(e) == Propagated /\ exc = e

AfterYearQuery ==
    \/ pc = "gd_count"
    \/ Propagated /\ Len(fetches) = 1 /\ fetches[1].fn = "probe"

C6_YearQualifier ==
    AfterYearQuery =>
        IF reporting_year = NoneInt
        THEN reporting_year_query = "" /\ fetches = <<>> /\ pc = "gd_count"
        ELSE /\ Len(fetches) = 1
             /\ fetches[1].fn = "probe"
             /\ fetches[1].path = BASE_URL \o "/" \o table \o "/rows/0:1/csv"
             /\ fetches[1].ok =>
                   LET y == ToString(reporting_year[1])
                       has(name) == \E k \in 1..Len(df.columns) :
                                       Lower(df.columns[k]) = name
                   IN  /\ has(C_reporting_year) =>
                             pc = "gd_count"
                                 /\ reporting_year_query = "reporting_year/" \o y
                       /\ (has(C_year) /\ ~has(C_reporting_year)) =>
                             pc = "gd_count" /\ reporting_year_query = "year/" \o y
                       /\ (~has(C_year) /\ ~has(C_reporting_year)) =>
                             Propagated /\ exc = E_YEAR
                       /\ (df.columns = <<C_FACILITY_ID, C_Reporting_Year>>
                             /\ reporting_year = SomeInt(2023)) =>
                             reporting_year_query = "reporting_year/2023"
                       /\ (df.columns = <<C_FACILITY_ID, C_YEAR>>
                             /\ reporting_year = SomeInt(2023)) =>
                             reporting_year_query = "year/2023"

C6_Witness ==
    /\ pc = "gd_count"
    /\ reporting_year = SomeInt(2023)
    /\ df.kind = "DataFrame"
    /\ df.columns = <<C_REPORTING_YEAR, C_YEAR>>
    /\ reporting_year_query = "reporting_year/2023"

(***************************************************************************)
(* C7.  A successful get_data with a target year and no row limit on a     *)
(* table of N > 0 matching rows calls read_path exactly so: one year       *)
(* probe, one count fetch, then ceil(N / 10,000) slice fetches in          *)
(* increasing chunk order, each with the resolved year qualifier,          *)
(* consecutive slices sharing a boundary (12,000 rows: [0,10000] then      *)
(* [10000,12000]); nothing else is fetched.                                *)
(***************************************************************************)
Min(a, b) == IF a < b THEN a ELSE b

C7_FetchSequence ==
    (reporting_year # NoneInt /\ rows = NoneInt /\ max_row # NoneInt
        /\ max_row[1] > 0 /\ pc \in {"gd_loop", "gd_concat", "returned", "m_write"}) =>
        LET N == max_row[1]
            chunks == (N + 9999) \div 10000
            q == reporting_year_query
        IN  /\ q \in {"reporting_year/" \o ToString(reporting_year[1]),
                      "year/" \o ToString(reporting_year[1])}
            /\ Len(fetches) >= 2
            /\ fetches[1].fn = "probe"
            /\ fetches[2].fn = "count"
            /\ fetches[2].path = BASE_URL \o "/" \o table \o "/" \o q \o "/count/csv"
            /\ Len(fetches) <= 2 + chunks
            /\ Completed => Len(fetches) = 2 + chunks
            /\ \A k \in 1..(Len(fetches) - 2) :
                  LET f == fetches[2 + k]
                      lo == (k - 1) * 10000
                      hi == Min(k * 10000, N)
                  IN  /\ f.fn = "slice"
                      /\ f.ok
                      /\ f.start_row = lo
                      /\ f.end_row = hi
                      /\ f.custom_query = q
                      /\ f.path = BASE_URL \o "/" \o table \o "/" \o q \o "/rows/"
                                     \o ToString(lo) \o ":" \o ToString(hi) \o "/csv"
            /\ (Completed /\ N = 12000) =>
                  /\ Len(fetches) = 4
                  /\ <<fetches[3].start_row, fetches[3].end_row>> = <<0, 10000>>
                  /\ <<fetches[4].start_row, fetches[4].end_row>> = <<10000, 12000>>

C7_Witness ==
    /\ pc = "returned"
    /\ reporting_year = SomeInt(2023)
    /\ rows = NoneInt
    /\ max_row = SomeInt(12000)
    /\ Len(fetches) = 4
    /\ fetches[4].path =
         "https://enviro.epa.gov/enviro/efservice//pub_dim_facility/year/2023/rows/10000:12000/csv"

(***************************************************************************)
(* C8.  The table get_data returns is the concatenation of the fetched     *)
(* slices in chunk order with exact duplicate rows removed: every row of   *)
(* any slice is in the result exactly once, at the place of its first      *)
(* arrival, the rows that stay keep their arrival order, and no row absent *)
(* from every slice is in the result.                                      *)
(***************************************************************************)
C8_ConcatDeduplicated ==
    (Completed /\ ReturnedValue.kind = "DataFrame") =>
        LET arrived == ArrivedRows(SliceFetches)
            out == ReturnedValue.data
        IN  /\ \A k \in 1..Len(arrived) : Occurrences(out, arrived[k]) = 1
            /\ \A k \in 1..Len(out) : Occurrences(arrived, out[k]) >= 1
            /\ \A i, j \in 1..Len(out) :
                  i < j => FirstIndex(arrived, out[i]) < FirstIndex(arrived, out[j])
            /\ ReturnedValue.columns = SliceColumns

C8_Witness ==
    /\ pc = "returned"
    /\ Len(SliceFetches) = 2
    /\ SliceFetches[1].data = <<R2, R3, R3>>
    /\ SliceFetches[2].data = <<R1, R2>>
    /\ result.data = <<R2, R3, R1>>

(***************************************************************************)
(* C9.  The driver handles every (table, year) pair of its lists exactly   *)
(* once, in order, and always reaches the end of the batch: a pair whose   *)
(* output file exists is skipped (get_data does not run for it and the     *)
(* file is not written again), any other pair has get_data called and is   *)
(* either written or reported with a problem line; a failure of get_data   *)
(* or of the write never keeps a later pair from being handled.            *)
(***************************************************************************)
C9_Handled ==
    /\ caller = "main"
    /\ Len(stdout) = TurnsDone
    /\ TurnsDone <= Len(tables) * Len(years)
    /\ \A k \in 1..Len(stdout) :
          LET tb == TableOfTurn(k)
              year == YearOfTurn(k)
              file == base_dir \o "/" \o tb \o "_" \o ToString(year) \o ".csv"
          IN  \/ stdout[k] = "Exists: " \o file /\ file \in files
              \/ stdout[k] = "Wrote file: " \o file /\ file \in files
              \/ stdout[k] = "Problem with table: " \o tb
                                 \o " (" \o ToString(year) \o ")"
    /\ pc = "m_done" <=> TurnsDone = Len(tables) * Len(years)
    /\ pc \in {"gd_year", "gd_count", "gd_arange", "gd_loop", "gd_concat",
               "m_write", "m_except"} =>
          /\ pth_out(tables[t_idx], years[y_idx]) \notin files
          /\ table = tables[t_idx]
          /\ reporting_year = SomeInt(years[y_idx])

C9_BatchCompletes == []C9_Handled /\ <>(pc = "m_done")

C9_Witness ==
    /\ pc = "m_done"
    /\ Len(stdout) = Len(tables) * Len(years)
    /\ stdout[1] = "Problem with table: V_GHG_EMITTER_FACILITIES (2023)"
    /\ Last(stdout) =
         "Wrote file: /your/output/directory/goes/here/pub_dim_facility_2023.csv"

(***************************************************************************)
(* C10.  When get_data yields None for a pair, the driver does not treat   *)
(* it as an outcome of its own: no output file is written for the pair and *)
(* it is reported with the problem line and the short pause of a fetch     *)
(* error, so the pair is fetched again by the next run.                    *)
(***************************************************************************)
C10_NoDataIsAProblem ==
    (caller = "main" /\ pc \in {"m_for", "m_done"} /\ yielded \in {"None", "raised"}) =>
        LET year == reporting_year[1]
        IN  /\ Last(stdout) = "Problem with table: " \o table
                                  \o " (" \o ToString(year) \o ")"
            /\ Last(slept) = 200
            /\ pth_out(table, year) \notin files
            /\ table = TableOfTurn(TurnsDone)
            /\ year = YearOfTurn(TurnsDone)

C10_Witness ==
    /\ caller = "main"
    /\ pc = "m_done"
    /\ yielded = "None"
    /\ Last(stdout) = "Problem with table: pub_dim_facility (2023)"
    /\ Last(slept) = PauseFail
    /\ files = {}

====
